---- MODULE Spec2Model ----
(***************************************************************************)
(* A model of the benchmark runner (src/src/runner.js), the discovery     *)
(* loop that feeds it (src/unnamed/part_000) and the registration entry   *)
(* points (src/unnamed/part_001).                                         *)
(*                                                                         *)
(* JavaScript runs one synchronous segment at a time.  `cpu` names the    *)
(* activity that is executing; a segment ends at an await or a return to  *)
(* the event loop.  The event loop then runs the process.nextTick queue,  *)
(* the microtask queue (continuations of awaits on settled promises) and, *)
(* when both are empty, one external completion (the file matcher, the    *)
(* module loader, the repetition primitive amrap).                        *)
(***************************************************************************)
EXTENDS Integers, Sequences, FiniteSets, TLC

\* ------------------------------------------------------------------ bounds
MaxFiles == 2
MaxJobs == 2
MaxDrains == 2
MaxCases == 1
MaxOptions == 2

\* --------------------------------------------------------- program constants
DefaultTime == 1000
EstimateThreshold == 10000
NoTime == -1
NoExit == -1
NoResult == -1

\* ------------------------------------------------------------------ helpers
Range(s) == {s[i] : i \in 1..Len(s)}

Last(s) == s[Len(s)]

RECURSIVE ConcatAll(_)
ConcatAll(ss) == IF ss = <<>> THEN <<>> ELSE Head(ss) \o ConcatAll(Tail(ss))

\* ------------------------------------------------- IEEE-754 binary64 numbers
\* JavaScript numbers are binary64.  A positive double is m * 2^e with a
\* 53-bit significand m, kept here as <<1, l1, l2, l3, l4>>: the leading bit
\* and four 13-bit limbs.  timePerCase / elapsed and reps * correctionFactor
\* are computed in this arithmetic, rounding to nearest, ties to even.
Limb == 2^13

RECURSIVE Pow2(_)
Pow2(n) == IF n <= 0 THEN 1 ELSE 2 * Pow2(n - 1)

\* The least k >= 0 with a < b * 2^(k+1), counted up from `k`.
RECURSIVE Shift(_, _, _)
Shift(a, b, k) == IF a < 2 * b THEN k ELSE Shift(a, 2 * b, k + 1)

\* m + 1 unit in the last place.
NextSignificand(m, e) ==
    LET c4 == m[5] + 1
        c3 == m[4] + c4 \div Limb
        c2 == m[3] + c3 \div Limb
        c1 == m[2] + c2 \div Limb
    IN IF m[1] + c1 \div Limb = 2
       THEN [m |-> <<1, 0, 0, 0, 0>>, e |-> e + 1]
       ELSE [m |-> <<1, c1 % Limb, c2 % Limb, c3 % Limb, c4 % Limb>>, e |-> e]

\* The double nearest to the exact value (m, then the bit `guard`, then, when
\* `sticky`, further non-zero bits) * 2^e; a tie goes to the even significand.
RoundNearestEven(m, guard, sticky, e) ==
    IF guard = 1 /\ (sticky \/ m[5] % 2 = 1)
    THEN NextSignificand(m, e)
    ELSE [m |-> m, e |-> e]

\* a / b in binary64, for integers 0 < a, b < 2^14: long division, 13 bits
\* of the quotient at a time.
FloatDivide(a, b) ==
    LET k0 == Shift(b, a, 0)
        up == IF a >= b THEN 0 ELSE IF a * Pow2(k0) < b THEN k0 + 1 ELSE k0
        aa == a * Pow2(up)
        down == Shift(aa, b, 0)
        bb == b * Pow2(down)               \* 1 <= aa / bb < 2
        r0 == aa - bb
        r1 == (r0 * Limb) % bb
        r2 == (r1 * Limb) % bb
        r3 == (r2 * Limb) % bb
        r4 == (r3 * Limb) % bb
    IN RoundNearestEven(<<1, (r0 * Limb) \div bb, (r1 * Limb) \div bb,
                          (r2 * Limb) \div bb, (r3 * Limb) \div bb>>,
                        IF 2 * r4 >= bb THEN 1 ELSE 0,
                        (2 * r4) % bb # 0,
                        down - up - 52)

\* n * x in binary64, for an integer 0 < n < 2^12 and a double x > 0: the
\* exact product limb by limb, shifted back to 53 bits and rounded.
FloatTimes(n, x) ==
    LET c4 == n * x.m[5]
        c3 == n * x.m[4] + c4 \div Limb
        c2 == n * x.m[3] + c3 \div Limb
        c1 == n * x.m[2] + c2 \div Limb
        top == n * x.m[1] + c1 \div Limb
        s == Shift(top, 1, 0)              \* bits to drop: top has s + 1 bits
        lo == Pow2(s)
        hi == Pow2(13 - s)
        d1 == c1 % Limb
        d2 == c2 % Limb
        d3 == c3 % Limb
        d4 == c4 % Limb
        dropped == d4 % lo
    IN RoundNearestEven(<<top \div lo,
                          (top % lo) * hi + d1 \div lo,
                          (d1 % lo) * hi + d2 \div lo,
                          (d2 % lo) * hi + d3 \div lo,
                          (d3 % lo) * hi + d4 \div lo>>,
                        IF s >= 1 THEN dropped \div Pow2(s - 1) ELSE 0,
                        s >= 2 /\ dropped % Pow2(s - 1) # 0,
                        x.e + s)

\* The integer part of limb * 2^sh.
LimbFloor(limb, sh) ==
    IF sh >= 0 THEN limb * Pow2(sh)
    ELSE IF sh <= -13 THEN 0
    ELSE limb \div Pow2(-sh)

\* Math.floor of a double x > 0 whose integer part is below 2^31.
FloatFloor(x) ==
    LimbFloor(x.m[1], 52 + x.e) + LimbFloor(x.m[2], 39 + x.e)
    + LimbFloor(x.m[3], 26 + x.e) + LimbFloor(x.m[4], 13 + x.e)
    + LimbFloor(x.m[5], x.e)

\* correctionFactor = timePerCase / elapsed
\* result = Math.floor(reps * correctionFactor)
\* Each intermediate double is computed once, as in the code, and then used.
Normalize(reps, timePerCase, elapsed) ==
    IF reps = 0 THEN 0
    ELSE CHOOSE result \in
            {FloatFloor(scaled) : scaled \in
                {FloatTimes(reps, correctionFactor) : correctionFactor \in
                    {FloatDivide(timePerCase, elapsed)}}} : TRUE

FREE == [who |-> "free", id |-> 0]
MAIN == [who |-> "main", id |-> 0]
Drain(d) == [who |-> "drain", id |-> d]

DrainIds == 1..MaxDrains

\* ------------------------------------------------------------ queue entries
\* this.stack holds a string (a file's path), null, or {name, description,
\* complex}.  The queue never looks into a description: only the run of the
\* job reads it, so its content is drawn when the job is taken (ShiftJob).
GroupOpen(path) == [kind |-> "GroupOpen", name |-> path]
GroupClose == [kind |-> "GroupClose"]
Job(name, complex) == [kind |-> "Job", name |-> name, complex |-> complex]

\* ------------------------------------------------- benchmark descriptions
\* A simple description: {cases, pre, post, time}; `cases` lists the case
\* names in declaration order.  `pre` / `post` tell whether the hook is given.
CaseName(n) == [index |-> FALSE, id |-> n]

\* A property name: `index` tells whether it is the canonical decimal string
\* of the integer `id` (an integer index such as "1") or any other string.
PropertyName(index, id) == [index |-> index, id |-> id]

\* The positions in S, by ascending numeric value of their keys.
RECURSIVE Ascending(_, _)
Ascending(keys, S) ==
    IF S = {} THEN <<>>
    ELSE LET least == CHOOSE i \in S : \A j \in S : keys[i].id <= keys[j].id
         IN <<least>> \o Ascending(keys, S \ {least})

\* Object.entries: own properties in the order integer indices ascending,
\* then the other strings in the order they were declared.
ObjectEntries(entries, keys) ==
    LET Other(i) == ~keys[i].index
        order == Ascending(keys, {i \in 1..Len(keys) : keys[i].index})
                 \o SelectSeq([i \in 1..Len(keys) |-> i], Other)
    IN [i \in 1..Len(order) |-> entries[order[i]]]

Hooks == {[time |-> NoTime, pre |-> TRUE, post |-> TRUE],
          [time |-> 7, pre |-> FALSE, post |-> FALSE]}

SimpleDescriptions ==
    {[cases |-> [i \in 1..n |-> CaseName(i)], time |-> h.time, pre |-> h.pre,
      post |-> h.post] : n \in 0..MaxCases, h \in Hooks}

\* const makeOption = (x) => ({ name: x, value: x })
makeOption(x) == [name |-> x, value |-> x, filter |-> <<>>]

\* A complex description: {parameters, pre, post, callback, time};
\* `parameters` lists [key, {name, options | values}] in declaration order.
Dimension(key, n) ==
    [key |-> key, name |-> key, options |-> <<>>, values |-> [i \in 1..n |-> i]]

ComplexDescriptions ==
    {[parameters |-> p, time |-> NoTime, pre |-> TRUE, post |-> TRUE] :
        p \in {<<>>} \cup {<<Dimension(PropertyName(FALSE, 1), n)>> : n \in 0..MaxCases}}

Descriptions(complex) == IF complex THEN ComplexDescriptions ELSE SimpleDescriptions

\* Grids of one or two dimensions, for the runs of a single benchmark: the
\* keys a description may declare, in every declared order.
GridNames == {PropertyName(FALSE, 1), PropertyName(FALSE, 2), PropertyName(TRUE, 1)}

GridKeyLists ==
    {<<k>> : k \in GridNames}
    \cup ({<<j, k>> : j \in GridNames, k \in GridNames} \ {<<k, k>> : k \in GridNames})

\* The filter the first option of dimension i may carry: none, or one that
\* rejects a label of the dimension declared after it (cyclically).
GridFilters(keys, i) ==
    {<<>>} \cup {<<[key |-> keys[(i % Len(keys)) + 1], name |-> v]>> : v \in 1..MaxOptions}

\* A dimension given by `options`, the first of which carries `filter`.
FilteredDimension(key, n, filter) ==
    [key |-> key, name |-> key, values |-> <<>>,
     options |-> [i \in 1..n |->
                    [name |-> i, value |-> i,
                     filter |-> IF i = 1 THEN filter ELSE <<>>]]]

GridDescriptions ==
    UNION {
        {[parameters |-> [i \in 1..Len(keys) |->
                            IF f[i] = <<>> THEN Dimension(keys[i], n[i])
                            ELSE FilteredDimension(keys[i], n[i], f[i])],
          time |-> NoTime, pre |-> TRUE, post |-> TRUE] :
            n \in [1..Len(keys) -> 1..MaxOptions],
            f \in {g \in [1..Len(keys) ->
                              UNION {GridFilters(keys, i) : i \in 1..Len(keys)}] :
                      \A i \in 1..Len(keys) : g[i] \in GridFilters(keys, i)}} :
        keys \in GridKeyLists}

\* Simple descriptions whose cases are named by the same keys.
NamedCaseDescriptions ==
    {[cases |-> keys, time |-> NoTime, pre |-> TRUE, post |-> TRUE] :
        keys \in GridKeyLists}

SweepDescriptions(complex) ==
    IF complex THEN GridDescriptions ELSE NamedCaseDescriptions

\* time: timePerCase = 1e3
TimePerCase(description) ==
    IF description.time = NoTime THEN DefaultTime ELSE description.time

\* options ?? map(values, makeOption)
ParameterOptions(parameter) ==
    IF parameter.options # <<>> THEN parameter.options
    ELSE [i \in 1..Len(parameter.values) |-> makeOption(parameter.values[i])]

\* product(parameterOptions): every combination, the last list varying fastest.
RECURSIVE product(_)
product(lists) ==
    IF lists = <<>> THEN << <<>> >>
    ELSE LET rest == product(Tail(lists))
         IN ConcatAll([i \in 1..Len(Head(lists)) |->
                          [j \in 1..Len(rest) |-> <<Head(lists)[i]>> \o rest[j]]])

\* zipObject(parameterKeys, xs)
zipObject(keys, xs) == [k \in Range(keys) |-> xs[CHOOSE i \in 1..Len(keys) : keys[i] = k]]

\* A combination whose filters are not consulted.
FilterNotCalled(filter, info) == TRUE

\* A filter [key, name] stands for the predicate (info) => info[key] !== name.
ApplyFilter(filter, info) == info[filter.key] # filter.name

RECURSIVE Keep(_, _)
\* The combinations every chosen option's filter accepts, as {info, data}.
Keep(combinations, keys) ==
    IF combinations = <<>> THEN <<>>
    ELSE LET options == Head(combinations)
             info == zipObject(keys, [i \in 1..Len(options) |-> options[i].name])
             data == zipObject(keys, [i \in 1..Len(options) |-> options[i].value])
             ok == \A i \in 1..Len(options) :
                       options[i].filter = <<>> \/ ApplyFilter(options[i].filter[1], info)
         IN (IF ok THEN << [info |-> info, data |-> data] >> ELSE <<>>)
            \o Keep(Tail(combinations), keys)

\* const parameters = Object.entries(_p)
Parameters(description) ==
    ObjectEntries(description.parameters,
                  [i \in 1..Len(description.parameters) |->
                      description.parameters[i].key])

ParameterKeys(description) ==
    [i \in 1..Len(description.parameters) |-> Parameters(description)[i].key]

ComplexCases(description) ==
    Keep(product([i \in 1..Len(description.parameters) |->
                     ParameterOptions(Parameters(description)[i])]),
         ParameterKeys(description))

\* parameterOptions.at(-1).at(-1).value throws a TypeError when there is no
\* parameter or the last parameter has no option.
LastValueThrows(description) ==
    \/ description.parameters = <<>>
    \/ ParameterOptions(Last(Parameters(description))) = <<>>

\* for (const [ name, callback ] of Object.entries(_c)) cases.push(...)
SimpleCases(description) == ObjectEntries(description.cases, description.cases)

\* ------------------------------------------------------- the environment
\* Durations the single timed warmup call may take, around the thresholds.
WarmupTimes(T) == {T \div 2, T \div 2 + 1, T, T + 1}

\* What amrap may resolve with: it overshoots, never undershoots.
AmrapResults(T) ==
    {[elapsed |-> T, reps |-> 3], [elapsed |-> T + 1, reps |-> 1],
     [elapsed |-> (T * 141) \div 125, reps |-> 141]}

\* ------------------------------------------------------------- variables
VARIABLES
    stack, running, filesDone, countFiles, countBenchmarks, countFailed,
    ticks, micro, inMicro, cpu, main, drains, exitCode, summary,
    nextId, started, raised

vars == <<stack, running, filesDone, countFiles, countBenchmarks, countFailed,
          ticks, micro, inMicro, cpu, main, drains, exitCode, summary,
          nextId, started, raised>>

\* `posts` counts the calls of post for the case begun last.
IdleDrain ==
    [pc |-> "idle", name |-> 0, description |-> <<>>, complex |-> FALSE,
     cases |-> <<>>, i |-> 0, timePerCase |-> 0, warmupTime |-> 0, calls |-> 0,
     elapsed |-> 0, reps |-> 0, result |-> NoResult, out |-> <<>>, error |-> FALSE,
     posts |-> 0]

Init ==
    /\ stack = <<>>
    /\ running = FALSE
    /\ filesDone = FALSE
    /\ countFiles = 0
    /\ countBenchmarks = 0
    /\ countFailed = 0
    /\ ticks = 0
    /\ micro = <<>>
    /\ inMicro = FALSE
    /\ cpu = FREE
    /\ main = [pc |-> "next", how |-> "io", first |-> 1, calls |-> 0]
    /\ drains = [d \in DrainIds |-> IdleDrain]
    /\ exitCode = NoExit
    /\ summary = <<>>
    /\ nextId = 1
    /\ started = <<>>
    /\ raised = {}

\* ------------------------------------------------------------ event loop
Alive == exitCode = NoExit

\* The event loop picks the next segment only when nothing is executing.
\* Microtasks queued while microtasks are being drained run before the next
\* tick; otherwise process.nextTick callbacks run first.  An external
\* completion is delivered only when both queues are empty.
MicroTurn(who) ==
    /\ Alive /\ cpu = FREE
    /\ micro # <<>> /\ Head(micro) = who
    /\ (inMicro \/ ticks = 0)

TickTurn == Alive /\ cpu = FREE /\ ticks > 0 /\ (~inMicro \/ micro = <<>>)

MacroTurn == Alive /\ cpu = FREE /\ ticks = 0 /\ micro = <<>>

Running(who) == Alive /\ cpu = who

FreeSlot == CHOOSE d \in DrainIds :
                /\ drains[d].pc = "idle"
                /\ \A e \in DrainIds : e < d => drains[e].pc # "idle"

HasFreeSlot == \E d \in DrainIds : drains[d].pc = "idle"

InJob(d) == drains[d].pc \in {"case", "skipPost", "amrap", "measured", "await"}

\* ------------------------------------------------------ discovery loop
\* for await (const file of matcher.getFiles()) { await appendFile(file.path) }
\* defaultRunner.finish()
MainResumes ==
    /\ main.pc = "next"
    /\ IF main.how = "io" THEN MacroTurn ELSE MicroTurn(MAIN)

AfterMainResumes == IF main.how = "io" THEN micro ELSE Tail(micro)

\* The loop awaits appendFile's promise and asks the matcher for the next
\* file; the matcher answers from what it has buffered (a microtask) or after
\* more I/O.
AwaitNext(queue) ==
    \E how \in {"io", "micro"} :
        /\ main' = [main EXCEPT !.pc = "next", !.how = how]
        /\ micro' = IF how = "micro" THEN Append(queue, MAIN) ELSE queue

\* appendFile up to require(resolved) starting to run a CommonJS file.
AppendFileRequire ==
    /\ MainResumes
    /\ countFiles < MaxFiles
    /\ countFiles' = countFiles + 1
    /\ stack' = Append(stack, GroupOpen(countFiles + 1))
    /\ main' = [pc |-> "load", how |-> "-", first |-> nextId, calls |-> main.calls + 1]
    /\ micro' = AfterMainResumes
    /\ cpu' = MAIN
    /\ inMicro' = TRUE
    /\ UNCHANGED <<running, filesDone, countBenchmarks, countFailed, ticks,
                   drains, exitCode, summary, nextId, started, raised>>

\* appendFile where require throws ERR_REQUIRE_ESM: await import(resolved).
AppendFileImport ==
    /\ MainResumes
    /\ countFiles < MaxFiles
    /\ countFiles' = countFiles + 1
    /\ stack' = Append(stack, GroupOpen(countFiles + 1))
    /\ main' = [pc |-> "import", how |-> "-", first |-> nextId, calls |-> main.calls + 1]
    /\ micro' = AfterMainResumes
    /\ cpu' = FREE
    /\ inMicro' = TRUE
    /\ UNCHANGED <<running, filesDone, countBenchmarks, countFailed, ticks,
                   drains, exitCode, summary, nextId, started, raised>>

\* A call of runBenchmarks enters its while loop.
NewDrain == [IdleDrain EXCEPT !.pc = "loop"]

\* A registration that would call this.runBenchmarks() on the spot.
RunBenchmarksNow ==
    /\ HasFreeSlot
    /\ drains' = [drains EXCEPT ![FreeSlot] = NewDrain]
    /\ cpu' = Drain(FreeSlot)
    /\ UNCHANGED ticks

\* A registration that sets running and arms nothing.
ArmNothing == UNCHANGED <<ticks, drains, cpu>>

\* process.nextTick(() => this.runBenchmarks()): the callback is queued and
\* the registration returns to the file that is being loaded.
ArmDeferredStart ==
    /\ ticks' = ticks + 1
    /\ UNCHANGED <<drains, cpu>>

\* The body of appendSimpleBenchmark and of appendComplexBenchmark.
Register(item) ==
    /\ Running(MAIN)
    /\ main.pc \in {"load", "eval"}
    /\ nextId <= MaxJobs
    /\ stack' = Append(stack, item)
    /\ nextId' = nextId + 1
    /\ IF running
       THEN UNCHANGED <<running, ticks, drains, cpu>>
       ELSE /\ running' = TRUE
            /\ ArmDeferredStart
    /\ UNCHANGED <<filesDone, countFiles, countBenchmarks, countFailed, micro,
                   inMicro, main, exitCode, summary, started, raised>>

appendSimpleBenchmark == Register(Job(nextId, FALSE))

appendComplexBenchmark == Register(Job(nextId, TRUE))

\* require returned: this.stack.push(null), appendFile returns.
RequireReturns ==
    /\ Running(MAIN)
    /\ main.pc = "load"
    /\ stack' = Append(stack, GroupClose)
    /\ AwaitNext(micro)
    /\ cpu' = FREE
    /\ UNCHANGED <<running, filesDone, countFiles, countBenchmarks, countFailed,
                   ticks, inMicro, drains, exitCode, summary, nextId, started, raised>>

\* A queue to which the closing marker is added all the same.
QueueAfterLoadErrorClosed(queue) == Append(queue, GroupClose)

\* The queue when require has thrown: this.stack.push(null) is not reached.
QueueAfterLoadError(queue) == queue

\* require throws an error other than ERR_REQUIRE_ESM, at any point of the
\* file's body: appendFile rethrows it, its promise is rejected, and so is
\* the discovery loop's, which awaits it and has no handler.
RequireThrows ==
    /\ Running(MAIN)
    /\ main.pc = "load"
    /\ stack' = QueueAfterLoadError(stack)
    /\ main' = [main EXCEPT !.pc = "rejected"]
    /\ cpu' = FREE
    /\ UNCHANGED <<running, filesDone, countFiles, countBenchmarks, countFailed,
                   ticks, micro, inMicro, drains, exitCode, summary, nextId,
                   started, raised>>

\* The loader has read the ES module and evaluates it; Node's loader does so
\* from the continuation of an async function, that is in a promise job.
ImportEvaluates ==
    /\ main.pc = "import"
    /\ MacroTurn
    /\ main' = [main EXCEPT !.pc = "eval"]
    /\ cpu' = MAIN
    /\ inMicro' = TRUE
    /\ UNCHANGED <<stack, running, filesDone, countFiles, countBenchmarks,
                   countFailed, ticks, micro, drains, exitCode, summary, nextId,
                   started, raised>>

\* The module's body has run: import()'s promise resolves.
ImportResolves ==
    /\ Running(MAIN)
    /\ main.pc = "eval"
    /\ main' = [main EXCEPT !.pc = "imported"]
    /\ micro' = Append(micro, MAIN)
    /\ cpu' = FREE
    /\ UNCHANGED <<stack, running, filesDone, countFiles, countBenchmarks,
                   countFailed, ticks, inMicro, drains, exitCode, summary, nextId,
                   started, raised>>

\* appendFile resumes after await import: this.stack.push(null), returns.
ImportReturns ==
    /\ main.pc = "imported"
    /\ MicroTurn(MAIN)
    /\ stack' = Append(stack, GroupClose)
    /\ AwaitNext(Tail(micro))
    /\ cpu' = FREE
    /\ inMicro' = TRUE
    /\ UNCHANGED <<running, filesDone, countFiles, countBenchmarks, countFailed,
                   ticks, drains, exitCode, summary, nextId, started, raised>>

\* finish(): filesDone = true, then runBenchmarks() is called directly.
finish ==
    /\ MainResumes
    /\ HasFreeSlot
    /\ filesDone' = TRUE
    /\ drains' = [drains EXCEPT ![FreeSlot] = NewDrain]
    /\ cpu' = Drain(FreeSlot)
    /\ main' = [main EXCEPT !.pc = "done"]
    /\ micro' = AfterMainResumes
    /\ inMicro' = TRUE
    /\ UNCHANGED <<stack, running, countFiles, countBenchmarks, countFailed,
                   ticks, exitCode, summary, nextId, started, raised>>

\* The armed process.nextTick callback runs: this.runBenchmarks().
NextTickFires ==
    /\ TickTurn
    /\ HasFreeSlot
    /\ ticks' = ticks - 1
    /\ drains' = [drains EXCEPT ![FreeSlot] = NewDrain]
    /\ cpu' = Drain(FreeSlot)
    /\ inMicro' = FALSE
    /\ UNCHANGED <<stack, running, filesDone, countFiles, countBenchmarks,
                   countFailed, micro, main, exitCode, summary, nextId, started,
                   raised>>

\* ------------------------------------------------------- runBenchmarks
\* A row of toTable: the other columns' values.  The result column of the
\* latest row is kept in the drain's `result`.
Row(labels) == [t |-> "row", labels |-> labels]
Blank == [t |-> "blank"]
Estimate(numCases) == [t |-> "estimate", numCases |-> numCases]

\* if (totalTimeEstimate > 10e3) console.log(`Estimate: ...`)
EstimateLine(timePerCase, numCases) ==
    IF timePerCase * numCases > EstimateThreshold THEN <<Estimate(numCases)>> ELSE <<>>

\* The columns after the result: the case name, or the parameters' labels.
Labels(dr) ==
    IF dr.complex
    THEN LET keys == ParameterKeys(dr.description)
         IN [k \in 1..Len(keys) |-> dr.cases[dr.i].info[keys[k]]]
    ELSE <<dr.cases[dr.i]>>

\* The awaited run promise is settled: its continuation is a microtask.
Suspend(d, dr) ==
    /\ drains' = [drains EXCEPT ![d] = dr]
    /\ micro' = Append(micro, Drain(d))
    /\ cpu' = FREE

\* An exception leaves runSimpleBenchmark / runComplexBenchmark, post having
\* been called `posts` times for the case: the promise awaited at
\* runner.js:246-247 is rejected.
Throws(d, posts) ==
    /\ Suspend(d, [drains[d] EXCEPT !.pc = "await", !.error = TRUE,
                                    !.posts = posts])
    /\ raised' = raised \cup {drains[d].name}

\* The entry runBenchmarks takes from the queue: this.stack.shift().
ShiftTakesLast(queue) == [item |-> Last(queue), rest |-> SubSeq(queue, 1, Len(queue) - 1)]

Shifted(queue) == [item |-> Head(queue), rest |-> Tail(queue)]

\* const item = this.stack.shift(), a path: console.group(item).
ShiftGroupOpen(d) ==
    /\ Running(Drain(d))
    /\ drains[d].pc = "loop"
    /\ stack # <<>>
    /\ Shifted(stack).item.kind = "GroupOpen"
    /\ stack' = Shifted(stack).rest
    /\ UNCHANGED <<running, filesDone, countFiles, countBenchmarks, countFailed,
                   ticks, micro, inMicro, cpu, main, drains, exitCode, summary,
                   nextId, started, raised>>

\* item === null: console.groupEnd(), console.log().
ShiftGroupClose(d) ==
    /\ Running(Drain(d))
    /\ drains[d].pc = "loop"
    /\ stack # <<>>
    /\ Shifted(stack).item.kind = "GroupClose"
    /\ stack' = Shifted(stack).rest
    /\ UNCHANGED <<running, filesDone, countFiles, countBenchmarks, countFailed,
                   ticks, micro, inMicro, cpu, main, drains, exitCode, summary,
                   nextId, started, raised>>

\* A job is taken: console.group(name), then runSimpleBenchmark or
\* runComplexBenchmark runs up to its loop over the cases.
RunJob(d, descriptions) ==
    /\ Running(Drain(d))
    /\ drains[d].pc = "loop"
    /\ stack # <<>>
    /\ Shifted(stack).item.kind = "Job"
    /\ \E description \in descriptions :
       LET item == Shifted(stack).item
           T == TimePerCase(description)
           cases == IF item.complex THEN ComplexCases(description)
                    ELSE SimpleCases(description)
           dr == [IdleDrain EXCEPT
                    !.pc = "case", !.name = item.name, !.complex = item.complex,
                    !.description = description, !.cases = cases, !.i = 1,
                    !.timePerCase = T, !.out = EstimateLine(T, Len(cases))]
       IN /\ stack' = Shifted(stack).rest
          /\ countBenchmarks' = countBenchmarks + 1
          /\ started' = Append(started, item.name)
          /\ IF item.complex /\ LastValueThrows(description)
             THEN /\ Suspend(d, [dr EXCEPT !.pc = "await", !.error = TRUE])
                  /\ raised' = raised \cup {item.name}
             ELSE /\ drains' = [drains EXCEPT ![d] = dr]
                  /\ UNCHANGED <<micro, cpu, raised>>
    /\ UNCHANGED <<running, filesDone, countFiles, countFailed, ticks, inMicro,
                   main, exitCode, summary, nextId>>

ShiftJob(d) ==
    /\ stack # <<>>
    /\ RunJob(d, Descriptions(Shifted(stack).item.complex))

\* process.exit(this.countFailed > 0 ? 1 : 0)
ExitStatus(failed) == IF failed > 0 THEN 1 ELSE 0

\* if (this.filesDone): the queue is empty when the while loop is left.
ExitsWhenever(done, queue) == queue = <<>>

ExitsWhen(done, queue) == queue = <<>> /\ done

\* The queue is empty and the files are done: the summary, process.exit.
RunBenchmarksExits(d) ==
    /\ Running(Drain(d))
    /\ drains[d].pc = "loop"
    /\ ExitsWhen(filesDone, stack)
    /\ summary' = Append(summary, [files |-> countFiles,
                                   benchmarks |-> countBenchmarks,
                                   failed |-> countFailed])
    /\ exitCode' = ExitStatus(countFailed)
    /\ UNCHANGED <<stack, running, filesDone, countFiles, countBenchmarks,
                   countFailed, ticks, micro, inMicro, cpu, main, drains, nextId,
                   started, raised>>

\* The queue is empty and more files may come: this.running = false.
RunBenchmarksGoesIdle(d) ==
    /\ Running(Drain(d))
    /\ drains[d].pc = "loop"
    /\ stack = <<>>
    /\ ~ExitsWhen(filesDone, stack)
    /\ running' = FALSE
    /\ drains' = [drains EXCEPT ![d] = IdleDrain]
    /\ cpu' = FREE
    /\ UNCHANGED <<stack, filesDone, countFiles, countBenchmarks, countFailed,
                   ticks, micro, inMicro, main, exitCode, summary, nextId, started,
                   raised>>

\* -------------------------------- runSimpleBenchmark / runComplexBenchmark
\* if (warmupTime > timePerCase) ... if (warmupTime * 2 > timePerCase) ...
ClassifyByBudgetOnly(warmupTime, timePerCase) ==
    IF warmupTime > timePerCase THEN "skipped" ELSE "measure"

Classify(warmupTime, timePerCase) ==
    IF warmupTime > timePerCase THEN "skipped"
    ELSE IF warmupTime * 2 > timePerCase THEN "marginal"
    ELSE "measure"

\* The result printed for a case that is not measured.
Sentinel(class) == IF class = "skipped" THEN 0 ELSE 1

\* pre or the timed warmup call of the callback throws.
WarmupThrows(d) ==
    /\ Running(Drain(d))
    /\ drains[d].pc = "case"
    /\ drains[d].i <= Len(drains[d].cases)
    /\ Throws(d, 0)
    /\ UNCHANGED <<stack, running, filesDone, countFiles, countBenchmarks,
                   countFailed, ticks, inMicro, main, exitCode, summary, nextId,
                   started>>

\* pre, global.gc(true), the timed warmup call, and what follows from its
\* duration: a row of 0 or 1, or the call of amrap, which is awaited.
Warmup(d) ==
    /\ Running(Drain(d))
    /\ drains[d].pc = "case"
    /\ drains[d].i <= Len(drains[d].cases)
    /\ \E w \in WarmupTimes(drains[d].timePerCase) :
         LET dr == [drains[d] EXCEPT !.warmupTime = w, !.result = NoResult,
                                     !.posts = 0]
             class == Classify(w, dr.timePerCase)
         IN IF class = "measure"
            THEN /\ drains' = [drains EXCEPT ![d] =
                                 [dr EXCEPT !.pc = "amrap", !.calls = 1]]
                 /\ cpu' = FREE
            ELSE /\ drains' = [drains EXCEPT ![d] =
                                 [dr EXCEPT !.pc = "skipPost",
                                            !.result = Sentinel(class),
                                            !.out = Append(@, Row(Labels(dr)))]]
                 /\ UNCHANGED cpu
    /\ UNCHANGED <<stack, running, filesDone, countFiles, countBenchmarks,
                   countFailed, ticks, micro, inMicro, main, exitCode, summary,
                   nextId, started, raised>>

\* post && post(preData)
PostCalls(description) == IF description.post THEN 1 ELSE 0

\* post && post(preData); continue
SkipPost(d) ==
    /\ Running(Drain(d))
    /\ drains[d].pc = "skipPost"
    /\ drains' = [drains EXCEPT ![d] =
                    [@ EXCEPT !.pc = "case", !.i = @ + 1, !.warmupTime = 0,
                              !.posts = PostCalls(drains[d].description)]]
    /\ UNCHANGED <<stack, running, filesDone, countFiles, countBenchmarks,
                   countFailed, ticks, micro, inMicro, cpu, main, exitCode,
                   summary, nextId, started, raised>>

\* post throws, after a row of 0 or 1 or after the measurement.
PostThrows(d) ==
    /\ Running(Drain(d))
    /\ drains[d].pc \in {"skipPost", "measured"}
    /\ drains[d].description.post
    /\ Throws(d, 1)
    /\ UNCHANGED <<stack, running, filesDone, countFiles, countBenchmarks,
                   countFailed, ticks, inMicro, main, exitCode, summary, nextId,
                   started>>

\* amrap resolves with {elapsed, reps}.
AmrapResolves(d) ==
    /\ MacroTurn
    /\ drains[d].pc = "amrap"
    /\ \E r \in AmrapResults(drains[d].timePerCase) :
         drains' = [drains EXCEPT ![d] =
                      [@ EXCEPT !.pc = "measured", !.elapsed = r.elapsed,
                                !.reps = r.reps]]
    /\ cpu' = Drain(d)
    /\ inMicro' = TRUE
    /\ UNCHANGED <<stack, running, filesDone, countFiles, countBenchmarks,
                   countFailed, ticks, micro, main, exitCode, summary, nextId,
                   started, raised>>

\* The callback throws during the measurement: amrap rejects.
AmrapRejects(d) ==
    /\ MacroTurn
    /\ drains[d].pc = "amrap"
    /\ Throws(d, drains[d].posts)
    /\ inMicro' = TRUE
    /\ UNCHANGED <<stack, running, filesDone, countFiles, countBenchmarks,
                   countFailed, ticks, main, exitCode, summary, nextId, started>>

\* if (numParameters > 1 && data[lastKey] === lastValue) console.log()
Separator(dr) ==
    IF /\ dr.complex
       /\ Len(dr.description.parameters) > 1
       /\ dr.cases[dr.i].data[Last(ParameterKeys(dr.description))]
            = Last(ParameterOptions(Last(Parameters(dr.description)))).value
    THEN <<Blank>> ELSE <<>>

\* post && post(preData), the normalised result's row, the separator.
Measured(d) ==
    /\ Running(Drain(d))
    /\ drains[d].pc = "measured"
    /\ LET dr == drains[d]
           result == Normalize(dr.reps, dr.timePerCase, dr.elapsed)
       IN drains' = [drains EXCEPT ![d] =
                       [dr EXCEPT !.pc = "case", !.i = @ + 1, !.warmupTime = 0,
                                  !.calls = 0, !.elapsed = 0, !.reps = 0,
                                  !.result = result,
                                  !.posts = PostCalls(dr.description),
                                  !.out = Append(@, Row(Labels(dr)))
                                          \o Separator(dr)]]
    /\ UNCHANGED <<stack, running, filesDone, countFiles, countBenchmarks,
                   countFailed, ticks, micro, inMicro, cpu, main, exitCode,
                   summary, nextId, started, raised>>

\* Every case is done: the run promise is fulfilled.
RunReturns(d) ==
    /\ Running(Drain(d))
    /\ drains[d].pc = "case"
    /\ drains[d].i > Len(drains[d].cases)
    /\ Suspend(d, [drains[d] EXCEPT !.pc = "await"])
    /\ UNCHANGED <<stack, running, filesDone, countFiles, countBenchmarks,
                   countFailed, ticks, inMicro, main, exitCode, summary, nextId,
                   started, raised>>

\* if (error) { console.error(...); this.countFailed += 1 }
CountFailureTwice(error, failed) == IF error THEN failed + 2 ELSE failed

CountFailure(error, failed) == IF error THEN failed + 1 ELSE failed

\* The queue after a job's failure has been handled.
QueueAfterFailureDropsNext(error, queue) ==
    IF error /\ queue # <<>> THEN Tail(queue) ELSE queue

QueueAfterFailure(error, queue) == queue

\* runBenchmarks resumes after await: catch, count, console.groupEnd().
JobSettles(d) ==
    /\ MicroTurn(Drain(d))
    /\ drains[d].pc = "await"
    /\ countFailed' = CountFailure(drains[d].error, countFailed)
    /\ stack' = QueueAfterFailure(drains[d].error, stack)
    /\ drains' = [drains EXCEPT ![d] = NewDrain]
    /\ micro' = Tail(micro)
    /\ cpu' = Drain(d)
    /\ inMicro' = TRUE
    /\ UNCHANGED <<running, filesDone, countFiles, countBenchmarks, ticks, main,
                   exitCode, summary, nextId, started, raised>>

\* ----------------------------------------------------------------- Spec
Next ==
    \/ AppendFileRequire
    \/ AppendFileImport
    \/ appendSimpleBenchmark
    \/ appendComplexBenchmark
    \/ RequireReturns
    \/ RequireThrows
    \/ ImportEvaluates
    \/ ImportResolves
    \/ ImportReturns
    \/ finish
    \/ NextTickFires
    \/ \E d \in DrainIds :
        \/ ShiftGroupOpen(d)
        \/ ShiftGroupClose(d)
        \/ ShiftJob(d)
        \/ RunBenchmarksExits(d)
        \/ RunBenchmarksGoesIdle(d)
        \/ WarmupThrows(d)
        \/ Warmup(d)
        \/ SkipPost(d)
        \/ PostThrows(d)
        \/ AmrapResolves(d)
        \/ AmrapRejects(d)
        \/ Measured(d)
        \/ RunReturns(d)
        \/ JobSettles(d)

Spec == Init /\ [][Next]_vars

\* The discovery loop resumed by a promise job that is already queued.
MainMicrotask ==
    /\ main.how = "micro"
    /\ (AppendFileRequire \/ AppendFileImport \/ finish)

\* What the event loop and the runner do by themselves: everything but the
\* matcher answering after I/O, and a file's body registering a benchmark.
\* Node runs a queued callback, a started segment and a settled await to
\* their end; amrap settles when the job's own execution terminates.
Progress ==
    \/ MainMicrotask
    \/ RequireReturns
    \/ ImportEvaluates
    \/ ImportResolves
    \/ ImportReturns
    \/ NextTickFires
    \/ \E d \in DrainIds :
        \/ ShiftGroupOpen(d)
        \/ ShiftGroupClose(d)
        \/ ShiftJob(d)
        \/ RunBenchmarksExits(d)
        \/ RunBenchmarksGoesIdle(d)
        \/ Warmup(d)
        \/ SkipPost(d)
        \/ AmrapResolves(d)
        \/ Measured(d)
        \/ RunReturns(d)
        \/ JobSettles(d)

FairSpec == Spec /\ WF_vars(Progress)

\* ------------------------------------------------ one benchmark's sweep
\* The run of a single benchmark whose hooks and callback do not throw, over
\* the grids and named cases above.  It starts where appendFile has returned
\* for a file that registered one benchmark: the markers and the job are
\* queued and the deferred drain is armed.
SweepInit ==
    /\ \E complex \in BOOLEAN :
         stack = <<GroupOpen(1), Job(1, complex), GroupClose>>
    /\ running = TRUE
    /\ filesDone = FALSE
    /\ countFiles = 1
    /\ countBenchmarks = 0
    /\ countFailed = 0
    /\ ticks = 1
    /\ micro = <<>>
    /\ inMicro = TRUE
    /\ cpu = FREE
    /\ main = [pc |-> "next", how |-> "io", first |-> 1, calls |-> 1]
    /\ drains = [d \in DrainIds |-> IdleDrain]
    /\ exitCode = NoExit
    /\ summary = <<>>
    /\ nextId = 2
    /\ started = <<>>
    /\ raised = {}

SweepJob(d) ==
    /\ stack # <<>>
    /\ RunJob(d, SweepDescriptions(Shifted(stack).item.complex))

SweepNext ==
    \/ NextTickFires
    \/ \E d \in DrainIds :
        \/ ShiftGroupOpen(d)
        \/ ShiftGroupClose(d)
        \/ SweepJob(d)
        \/ RunBenchmarksGoesIdle(d)
        \/ Warmup(d)
        \/ SkipPost(d)
        \/ AmrapResolves(d)
        \/ Measured(d)
        \/ RunReturns(d)
        \/ JobSettles(d)

SweepSpec == SweepInit /\ [][SweepNext]_vars

\* ---------------------------------------------------------------- claims
Exited == exitCode # NoExit

Queued == {stack[i].name : i \in {k \in 1..Len(stack) : stack[k].kind = "Job"}}

Registered == 1..(nextId - 1)

\* C1: at most one job executes at a time: no job is taken and entered by
\* runBenchmarks while another job that was started has not completed.
C1_OneJobAtATime == Cardinality({d \in DrainIds : InJob(d)}) <= 1

\* C2: every registered job is taken from the queue and run exactly once (it
\* is either still queued or was started, never both, and was started by the
\* time the run terminates), and jobs start in the order of registration.
C2_FifoExactlyOnce ==
    /\ started = [i \in 1..Len(started) |-> i]
    /\ \A j \in Registered : (j \in Queued) # (j \in Range(started))
    /\ Queued \subseteq Registered
    /\ Exited => Range(started) = Registered

C2_Witness == Exited /\ Len(started) >= 2

\* C3: the process never terminates while a job that was started has not
\* finished.
C3_NoExitDuringJob == Exited => \A d \in DrainIds : ~InJob(d)

\* C4: a registration made while the drain loop is idle arms a deferred
\* start: while a file's body is running, none of the benchmarks it has
\* registered has begun executing and no call of runBenchmarks is active
\* on their behalf; the drain that was armed is still pending.  For a file
\* loaded by require the body ends with the push of the closing marker, so
\* the marker is queued too before the first of them begins.
C4_DeferredStart ==
    main.pc \in {"load", "eval"} =>
        /\ \A j \in main.first..(nextId - 1) : j \in Queued /\ j \notin Range(started)
        /\ cpu = MAIN
        /\ (nextId > main.first => running)
        /\ (nextId > main.first /\ \A d \in DrainIds : drains[d].pc = "idle") => ticks = 1

C4_Witness ==
    /\ main.pc = "load"
    /\ nextId - main.first >= 2
    /\ ticks = 1
    /\ \A d \in DrainIds : drains[d].pc = "idle"

\* C5: a job in which an exception is raised increments the failure counter
\* by exactly 1 when the failure is handled, aborts only that job and leaves
\* the queue's entries unchanged in content and order; the drain loop then
\* goes on with the next queued entry.
C5_Raise(d) ==
    (InJob(d) /\ ~drains[d].error /\ drains'[d].error) =>
        /\ drains'[d].pc = "await"
        /\ stack' = stack
        /\ countFailed' = countFailed
        /\ \A e \in DrainIds \ {d} : drains'[e] = drains[e]

C5_Handle(d) ==
    (drains[d].pc = "await" /\ drains[d].error /\ drains'[d] # drains[d]) =>
        /\ countFailed' = countFailed + 1
        /\ stack' = stack
        /\ drains'[d].pc = "loop"
        /\ cpu' = Drain(d)
        /\ \A e \in DrainIds \ {d} : drains'[e] = drains[e]

C6_ExitState ==
    Exited =>
        /\ stack = <<>>
        /\ filesDone
        /\ exitCode = IF countFailed > 0 THEN 1 ELSE 0

C6_GoesIdle ==
    \A d \in DrainIds :
        (cpu = Drain(d) /\ drains[d].pc = "loop" /\ stack = <<>> /\ ~filesDone
            /\ drains'[d] # drains[d])
        => (running' = FALSE /\ drains'[d].pc = "idle" /\ exitCode' = NoExit)

C6_ExitOnlyWhenDone == [](C6_ExitState /\ (~filesDone => ~Exited)) /\ [][C6_GoesIdle]_vars

C6_Witness == exitCode = 1 /\ countFailed > 0 /\ stack = <<>>

C8_Liveness ==
    /\ filesDone ~> (Exited /\ stack = <<>> /\ Len(summary) = 1)
    /\ \A j \in 1..MaxJobs : (j \in Queued) ~> (j \in Range(started))

C8_Witness == Exited /\ countBenchmarks >= 1 /\ main.calls >= 2

\* C9: warmup classification, for the single timed probe w and the budget T
\* of a case: if w > T the case is reported with 0 and amrap is not invoked;
\* else if 2w > T it is reported with 1 and amrap is not invoked; otherwise
\* amrap is invoked exactly once.
C9_Classification ==
    \A d \in DrainIds :
        LET dr == drains[d] IN
        /\ dr.pc = "skipPost" =>
              /\ dr.calls = 0
              /\ dr.warmupTime * 2 > dr.timePerCase
              /\ dr.result = IF dr.warmupTime > dr.timePerCase THEN 0 ELSE 1
        /\ dr.pc \in {"amrap", "measured"} =>
              /\ dr.calls = 1
              /\ dr.warmupTime * 2 <= dr.timePerCase
              /\ dr.result = NoResult

C9_Witness ==
    \E d \in DrainIds :
        /\ drains[d].pc = "skipPost"
        /\ drains[d].complex
        /\ drains[d].warmupTime = drains[d].timePerCase
        /\ drains[d].result = 1

\* C10: correction-factor law: for a measured case with budget T, elapsed
\* time E > 0 and repetitions R, the reported throughput is floor(R*T/E).
C10_CorrectionFactorLaw ==
    [][\A d \in DrainIds :
         (drains[d].pc = "measured" /\ drains'[d].pc = "case") =>
             drains'[d].result
                = (drains[d].reps * drains[d].timePerCase) \div drains[d].elapsed]_vars

\* The result rows a job has printed so far, as their label columns.
RowsOf(dr) ==
    LET IsRow(line) == line.t = "row"
        rows == SelectSeq(dr.out, IsRow)
    IN [i \in 1..Len(rows) |-> rows[i].labels]

\* A complex job whose run has returned normally; its output is complete.
SweepDone(d) == drains[d].pc = "await" /\ ~drains[d].error /\ drains[d].complex

\* The combinations of a grid, as maps from the position of a dimension in
\* the declaration to the position of the option chosen for it.
Combinations(description) ==
    LET ps == description.parameters
    IN {c \in [1..Len(ps) -> 1..MaxOptions] :
          \A i \in 1..Len(ps) : c[i] <= Len(ParameterOptions(ps[i]))}

ChosenOption(description, c, i) == ParameterOptions(description.parameters[i])[c[i]]

\* The label map of a combination: dimension key -> chosen option's name.
LabelMap(description, c) ==
    LET ps == description.parameters
    IN [k \in {ps[i].key : i \in 1..Len(ps)} |->
          ChosenOption(description, c, CHOOSE i \in 1..Len(ps) : ps[i].key = k).name]

\* What a filter predicate [key, name] answers on a label map.
PredicateHolds(filter, info) == info[filter.key] # filter.name

Admitted(description) ==
    {c \in Combinations(description) :
        \A i \in 1..Len(description.parameters) :
            LET filter == ChosenOption(description, c, i).filter
            IN filter = <<>> \/ PredicateHolds(filter[1], LabelMap(description, c))}

RECURSIVE ProductSize(_)
ProductSize(ps) ==
    IF ps = <<>> THEN 1 ELSE Len(ParameterOptions(Head(ps))) * ProductSize(Tail(ps))

HasFilter(description) ==
    \E i \in 1..Len(description.parameters) :
        \E j \in 1..Len(ParameterOptions(description.parameters[i])) :
            ParameterOptions(description.parameters[i])[j].filter # <<>>

\* C11: for a grid whose callbacks do not throw, the executed cases are
\* exactly the cartesian combinations every chosen option's filter accepts on
\* the combination's full label map: their number is the product size minus
\* the rejected combinations, and the full product size without filters.
C11_GridFilter ==
    \A d \in DrainIds :
        SweepDone(d) =>
            LET description == drains[d].description
                keys == ParameterKeys(description)
                rows == RowsOf(drains[d])
            IN /\ Len(rows) = Cardinality(Admitted(description))
               /\ Range(rows) =
                    {[k \in 1..Len(keys) |-> LabelMap(description, c)[keys[k]]] :
                        c \in Admitted(description)}
               /\ Len(rows) = ProductSize(description.parameters)
                     - Cardinality(Combinations(description) \ Admitted(description))
               /\ ~HasFilter(description) =>
                     Len(rows) = ProductSize(description.parameters)

C11_Witness ==
    \E d \in DrainIds :
        /\ SweepDone(d)
        /\ Len(drains[d].description.parameters) = 2
        /\ Len(RowsOf(drains[d])) = 2
        /\ ProductSize(drains[d].description.parameters) = 4

\* C12: per case, post is invoked exactly once, whatever the case's outcome:
\* once a case is over and the next one is begun or the run has ended, and
\* once a run has ended in a case whose measurement was begun, the post given
\* in the description has been called exactly once for that case.
C12_PostExactlyOnce ==
    \A d \in DrainIds :
        (InJob(d) /\ drains[d].description.post) =>
            /\ drains[d].posts <= 1
            /\ (drains[d].pc = "case" /\ drains[d].i > 1) => drains[d].posts = 1
            /\ (drains[d].pc = "await" /\ drains[d].calls = 1) => drains[d].posts = 1

\* A description with an empty case set, an empty parameter set or a
\* dimension without options.
Malformed(dr) ==
    IF dr.complex
    THEN \/ dr.description.parameters = <<>>
         \/ \E i \in 1..Len(dr.description.parameters) :
               ParameterOptions(dr.description.parameters[i]) = <<>>
    ELSE dr.description.cases = <<>>

\* C13: a malformed description surfaces as a failure of its job: when the
\* run of such a job is over, it has ended with an error (which the drain
\* loop then counts before it goes on with the next entry).
C13_MalformedFails ==
    \A d \in DrainIds :
        (drains[d].pc = "await" /\ Malformed(drains[d])) => drains[d].error

\* c comes before e when the dimensions are nested in declared order, the
\* last one innermost.
Before(c, e) ==
    \E i \in DOMAIN c :
        /\ c[i] < e[i]
        /\ \A j \in DOMAIN c : j < i => c[j] = e[j]

RECURSIVE InOrder(_)
InOrder(S) ==
    IF S = {} THEN <<>>
    ELSE LET first == CHOOSE c \in S : \A e \in S \ {c} : Before(c, e)
         IN <<first>> \o InOrder(S \ {first})

\* The rows of a grid in declared dimension order, last dimension fastest.
DeclaredRows(description) ==
    LET order == InOrder(Admitted(description))
    IN [r \in 1..Len(order) |->
          [i \in 1..Len(description.parameters) |->
              ChosenOption(description, order[r], i).name]]

\* C14: the cases of a complex benchmark are run, and their rows printed, in
\* declared dimension order with the last dimension varying fastest; the
\* cases of a simple benchmark in the declaration order of the cases map.
C14_DeclaredOrder ==
    \A d \in DrainIds :
        (drains[d].pc = "await" /\ ~drains[d].error) =>
            RowsOf(drains[d]) =
                IF drains[d].complex THEN DeclaredRows(drains[d].description)
                ELSE [i \in 1..Len(drains[d].description.cases) |->
                        <<drains[d].description.cases[i]>>]

\* The row of a case that ends an innermost sweep: its label for the last
\* dimension is that of the dimension's last option (in these grids an
\* option's label and value are the same).
EndsSweep(description, labels) ==
    Last(labels) = Last(ParameterOptions(Last(Parameters(description)))).name

\* C15: with more than one dimension a blank line follows the row of every
\* case that ends an innermost sweep, whatever the case's classification,
\* and follows no other row; with a single dimension there is no blank line.
C15_Separator ==
    \A d \in DrainIds :
        SweepDone(d) =>
            LET out == drains[d].out
                description == drains[d].description
            IN \A p \in 1..Len(out) :
                  out[p].t = "row" =>
                     ((p < Len(out) /\ out[p + 1].t = "blank")
                        <=> (/\ Len(description.parameters) > 1
                             /\ EndsSweep(description, out[p].labels)))

\* The positions of the lines of one kind in a job's output.
LinesOf(out, kind) == {p \in 1..Len(out) : out[p].t = kind}

\* C16: a complex benchmark declaring more than one dimension prints one
\* header row, of the dimensions' display names, before its first result row.
C16_HeaderRow ==
    \A d \in DrainIds :
        (SweepDone(d) /\ Len(drains[d].description.parameters) > 1) =>
            LET out == drains[d].out
            IN /\ Cardinality(LinesOf(out, "header")) = 1
               /\ \A h \in LinesOf(out, "header") :
                     \A r \in LinesOf(out, "row") : h < r

\* A drain is armed (its nextTick callback is pending) or active.
DrainArmedOrActive == ticks > 0 \/ \E d \in DrainIds : drains[d].pc # "idle"

C17_NoJobWhileIdle ==
    /\ (Alive /\ ~running) => Queued = {}
    /\ Queued # {} => DrainArmedOrActive
    /\ ticks <= 1

C17_RegistrationWhileRunning ==
    (running /\ nextId' # nextId) => (ticks' = ticks /\ drains' = drains)

\* C17: no lost wake-up: before termination, when running is false the queue
\* holds no job (group markers at most); whenever a job is queued a drain is
\* armed or active; a registration made while running is true arms no
\* additional drain.
C17_NoLostWakeup == []C17_NoJobWhileIdle /\ [][C17_RegistrationWhileRunning]_vars

C17_Witness ==
    /\ Alive
    /\ ~running
    /\ stack # <<>>
    /\ countBenchmarks >= 1

\* A drain takes a group marker (a path or null) from the queue.
TakesMarker ==
    /\ stack # <<>>
    /\ Head(stack).kind \in {"GroupOpen", "GroupClose"}
    /\ stack' = Tail(stack)

\* C18: output scopes are well nested: whenever the drain loop processes a
\* GroupOpen or GroupClose entry, no job's scope (opened by console.group
\* when the job was taken, closed when it has settled) is open.
C18_MarkersOutsideJobs == [][TakesMarker => \A d \in DrainIds : ~InJob(d)]_vars

\* The entries of the queue from the marker of the file being loaded on: the
\* marker, then the jobs the file has registered so far.
FileEntries ==
    <<GroupOpen(countFiles)>>
    \o [i \in 1..(nextId - main.first) |->
          [kind |-> "Job", name |-> main.first + i - 1]]

Kinds(queue) ==
    [i \in 1..Len(queue) |->
        [kind |-> queue[i].kind,
         name |-> IF queue[i].kind = "GroupClose" THEN 0 ELSE queue[i].name]]

\* appendFile rejects in this step.
LoadFails == main.pc = "load" /\ main'.pc = "rejected"

C19_Step ==
    LoadFails =>
        /\ countFiles = main.calls
        /\ countFiles' = countFiles
        /\ countFailed' = countFailed
        /\ stack' = stack
        /\ Len(stack) >= 1 + nextId - main.first
        /\ SubSeq(Kinds(stack), Len(stack) - (nextId - main.first), Len(stack))
              = FileEntries
        /\ UNCHANGED <<filesDone, exitCode, running, ticks, drains, raised>>

\* C19: when loading a file raises an error other than the ESM-fallback
\* case, appendFile rethrows it having counted the file and queued its
\* GroupOpen marker; no GroupClose is queued for the file, the jobs it had
\* registered stay queued, and the failure counter is left alone.
C19_LoadErrorRethrown ==
    /\ [][C19_Step]_vars
    /\ [](main.pc = "rejected" => (countFiles = main.calls /\ ~filesDone /\ ~Exited))

C19_Witness ==
    /\ main.pc = "rejected"
    /\ nextId - main.first >= 1
    /\ Len(stack) >= 2
    /\ Last(stack).kind = "Job"
    /\ countFailed = 0
====
